---- MODULE Spec2Model ----
(***************************************************************************)
(* Watch (edma2/Watch, main.go): re-runs a command each time a file under  *)
(* the working directory is written.  The model has one process per        *)
(* goroutine of main.go: the acme log reader loop of main, the window      *)
(* event handler events, the supervisor loop runner (termRunner with -t),  *)
(* one relay goroutine per started command, and the started commands.      *)
(***************************************************************************)
EXTENDS Integers, Sequences, FiniteSets, TLC

\* ---------------------------------------------------------------- bounds
MaxTriggers == 2  \* notifications delivered plus "Get" clicks in one behaviour
MaxChunks   == 1  \* chunks of output one command writes
TickMs      == 50 \* granularity of the model's clock, in milliseconds
MaxEnv      == 2  \* entries of the environment when envOf is checked by itself

\* ------------------------------------------------------ program constants
NeedrunCap == 1      \* make(chan *acme.LogEvent, 1)
SleepMs    == 100    \* time.Sleep(100 * time.Millisecond)

\* ------------------------------------------------------------ the inputs
\* Strings are tuples of characters, so that HasPrefix and the pattern
\* match are computed rather than assumed.
pwd     == <<"/", "w">>
pattern == <<"a">>        \* -only a

IsPrefix(p, s) == Len(p) <= Len(s) /\ SubSeq(s, 1, Len(p)) = p

\* strings.HasPrefix(event.Name, pwd)
HasPrefix(s, p) == IsPrefix(p, s)

\* re.MatchString for a literal pattern: an unanchored search
MatchString(p, s) ==
    \E i \in 1..(Len(s) + 1) : i + Len(p) - 1 <= Len(s) /\ SubSeq(s, i, i + Len(p) - 1) = p

EvPutA == [Name |-> <<"/", "w", "/", "a">>, Op |-> "put", ID |-> 1]
EvPutB == [Name |-> <<"/", "w", "/", "b">>, Op |-> "put", ID |-> 2]
EventSet == {EvPutA, EvPutB}

\* notifications the reader loop may also read: of another operation, of a
\* file in a directory whose name starts like pwd, of a file in a
\* subdirectory, of a file elsewhere, and without a name
EvDelA    == [Name |-> <<"/", "w", "/", "a">>, Op |-> "del", ID |-> 1]
EvPutSib  == [Name |-> <<"/", "w", "x", "/", "a">>, Op |-> "put", ID |-> 1]
EvPutDeep == [Name |-> <<"/", "w", "/", "a", "/", "b">>, Op |-> "put", ID |-> 1]
EvPutOut  == [Name |-> <<"/", "x", "/", "a">>, Op |-> "put", ID |-> 1]
EvNoName  == [Name |-> <<>>, Op |-> "put", ID |-> 1]
LogEvents == EventSet \cup {EvDelA, EvPutSib, EvPutDeep, EvPutOut, EvNoName}

\* a notification from a window whose id has two digits
EvPutA12 == [Name |-> <<"/", "w", "/", "a">>, Op |-> "put", ID |-> 12]

\* the condition of the reader loop: main.go line 79
Qualifies(e) ==
    /\ e.Name # <<>>
    /\ e.Op = "put"
    /\ HasPrefix(e.Name, pwd)
    /\ MatchString(pattern, e.Name)

\* a *acme.LogEvent: nil is <<>>, &event is <<event>>
Nil == <<>>
Ptr(e) == <<e>>

\* holders of run.Mutex; a relay holds it under its process number (>= 1)
Free       == 0
RunnerHolder == -1

VARIABLES
    term,       \* the -t flag
    environ,    \* os.Environ(): the environment Watch was started in
    exited,     \* the program has ended (os.Exit, log.Fatal)
    fatal,      \* the call that ended it: "l.Read", "Del" or "os.Pipe"
    log,        \* acme log: notifications delivered and not yet read
    nTrig,      \* notifications delivered and Get clicks so far
    readerPc,   \* main's loop: "read" or "sleep"
    sleepLeft,  \* milliseconds left of the reader's time.Sleep
    needrun,    \* the channel needrun
    run,        \* run.id and the holder of run.Mutex
    runnerPc,   \* position of runner / termRunner
    event,      \* the loop variable event of runner / termRunner
    id,         \* the local id of runner
    lastcmd,    \* the local lastcmd: 0 is nil, else a process number
    procs,      \* started commands, each with its relay goroutine
    win,        \* the window (the terminal with -t): the operations applied
                \* to it since it was last cleared, the clearing included
    trig,       \* history: a trigger since the last start attempt
    burst       \* history: the qualifying notifications delivered

\* the environment of the behaviours of the whole program: one entry the
\* acme of an enclosing window has set, one it has not
AmbientEnv == << <<"s", "a", "m", "f", "i", "l", "e", "=", "x">>, <<"H", "=", "h">> >>

\* entries an environment may hold: the three keys acme sets, a key that
\* only starts like one of them, a value with "=" in it, an entry without "="
EnvEntries ==
    { <<"s", "a", "m", "f", "i", "l", "e", "=", "x">>,
      <<"%", "=", "y">>,
      <<"w", "i", "n", "i", "d", "=", "7">>,
      <<"H", "=", "h">>,
      <<"w", "i", "n", "i", "d", "s", "=", "%", "=", "1">>,
      <<"s", "a", "m", "f", "i", "l", "e">> }

RECURSIVE SeqsUpTo(_, _)
SeqsUpTo(S, n) ==
    IF n = 0 THEN {<<>>}
    ELSE LET shorter == SeqsUpTo(S, n - 1)
         IN  shorter \cup {Append(q, x) : q \in shorter, x \in S}

Environs == SeqsUpTo(EnvEntries, MaxEnv)

vars == <<term, environ, exited, fatal, log, nTrig, readerPc, sleepLeft, needrun, run,
          runnerPc, event, id, lastcmd, procs, win, trig, burst>>

\* burst: n qualifying notifications have been delivered, the first one
\* age milliseconds ago (counted up to SleepMs), and the supervisor loop has
\* received recv signals since; tight as long as the triggers so far are all
\* notifications delivered less than SleepMs after the first one, which was
\* delivered when no signal was pending in needrun
NoBurst == [n |-> 0, age |-> 0, tight |-> TRUE, recv |-> 0]
Loose   == [n |-> 0, age |-> 0, tight |-> FALSE, recv |-> 0]

\* one start for the signal of line 53 and one for each trigger
MaxProcs == 1 + MaxTriggers

\* a set-up that leaves needrun empty
StartNoSignal(t) ==
    /\ term = t
    /\ environ = AmbientEnv
    /\ exited = FALSE
    /\ fatal = ""
    /\ log = <<>>
    /\ nTrig = 0
    /\ readerPc = "read"
    /\ sleepLeft = 0
    /\ needrun = <<>>
    /\ run = [id |-> 0, mu |-> Free]
    /\ runnerPc = "recv"
    /\ event = Nil
    /\ id = 0
    /\ lastcmd = 0
    /\ procs = <<>>
    /\ win = <<>>
    /\ trig = FALSE
    /\ burst = NoBurst

\* the state at the end of main's set-up (lines 44 to 73), flag -t is t
Start(t) ==
    /\ term = t
    /\ environ = AmbientEnv
    /\ exited = FALSE
    /\ fatal = ""
    /\ log = <<>>
    /\ nTrig = 0
    /\ readerPc = "read"
    /\ sleepLeft = 0
    /\ needrun = <<Nil>>                      \* needrun <- nil, line 53
    /\ run = [id |-> 0, mu |-> Free]
    /\ runnerPc = "recv"
    /\ event = Nil
    /\ id = 0
    /\ lastcmd = 0
    /\ procs = <<>>
    /\ win = <<>>
    /\ trig = FALSE
    /\ burst = NoBurst


Init == \E t \in BOOLEAN : Start(t)

\* os.Exit, log.Fatal: the process and all its goroutines are gone
Exit(why) ==
    /\ exited' = TRUE
    /\ fatal' = why
    /\ log' = <<>>
    /\ nTrig' = 0
    /\ readerPc' = "read"
    /\ sleepLeft' = 0
    /\ needrun' = <<>>
    /\ run' = [id |-> 0, mu |-> Free]
    /\ runnerPc' = "recv"
    /\ event' = Nil
    /\ id' = 0
    /\ lastcmd' = 0
    /\ procs' = <<>>
    /\ win' = <<>>
    /\ trig' = FALSE
    /\ burst' = NoBurst
    /\ UNCHANGED <<term, environ>>

\* ------------------------------------------------------------- helpers
\* a send that puts x in the channel whether it is full or not
OfferQueue(ch, x) == Append(ch, x)

\* a send that replaces what the channel holds by x
OfferLatest(ch, x) == <<x>>

\* a send that never puts x in the channel
OfferNever(ch, x) == ch

\* select { case needrun <- x: default: }
Offer(ch, x) == IF Len(ch) < NeedrunCap THEN Append(ch, x) ELSE ch

\* one operation on the window by goroutine `by` for generation g: locked tells
\* whether `by` holds run.Mutex, current whether g is run.id, at that moment
WinOp(op, g, by) ==
    [op |-> op, gen |-> g, locked |-> (run.mu = by), current |-> (run.id = g)]

\* win.Write, win.Fprintf: text is added to the body
Put(w, op, g, by) == Append(w, WinOp(op, g, by))

\* win.Addr(","); win.Write("data", nil): the body is replaced by nothing
Clear(g, by) == <<WinOp("clear", g, by)>>

\* ------------------------------------------------------------- envOf
\* strings.Split(v, "=")[0]: v up to its first "=", all of v when it has none
Split0(v) ==
    IF \E i \in 1..Len(v) : v[i] = "="
    THEN SubSeq(v, 1, (CHOOSE i \in 1..Len(v) :
                           v[i] = "=" /\ \A j \in 1..(i - 1) : v[j] # "=") - 1)
    ELSE v

\* case "samfile", "%", "winid"
ReservedKeys == { <<"s", "a", "m", "f", "i", "l", "e">>, <<"%">>, <<"w", "i", "n", "i", "d">> }

Digits == <<"0", "1", "2", "3", "4", "5", "6", "7", "8", "9">>

\* the verb %d of fmt.Sprintf, for n >= 0
RECURSIVE Itoa(_)
Itoa(n) == IF n < 10 THEN <<Digits[n + 1]>> ELSE Itoa(n \div 10) \o <<Digits[(n % 10) + 1]>>

\* a version of envOf that passes the whole environment on
envOfUnfiltered(ev) ==
    IF ev = Nil THEN environ
    ELSE environ \o << <<"s", "a", "m", "f", "i", "l", "e", "=">> \o ev[1].Name,
                       <<"%", "=">> \o ev[1].Name,
                       <<"w", "i", "n", "i", "d", "=">> \o Itoa(ev[1].ID) >>

\* envOf(event)
envOf(ev) ==
    LET filtered == SelectSeq(environ, LAMBDA v : Split0(v) \notin ReservedKeys)
    IN  IF ev = Nil THEN filtered
        ELSE filtered \o << <<"s", "a", "m", "f", "i", "l", "e", "=">> \o ev[1].Name,
                            <<"%", "=">> \o ev[1].Name,
                            <<"w", "i", "n", "i", "d", "=">> \o Itoa(ev[1].ID) >>


\* exec.Command(...) once cmd.Start has succeeded, with its goroutine
NewProc(g, ctx, pc) ==
    [gen |-> g, ctx |-> ctx, env |-> envOf(ctx), st |-> "running", kills |-> 0,
     left |-> MaxChunks, pipe |-> 0, pc |-> pc, dropped |-> 0]

\* the goroutine of a command returns: its locals are gone, the command has
\* been waited for
Done(p) == [p EXCEPT !.pc = "done", !.st = "gone", !.dropped = 0]

\* the previous command is not signalled
KillNothing(ps, c) == ps

\* lastcmd.Process.Kill() when lastcmd != nil
Kill(ps, c) ==
    IF c # 0 THEN [ps EXCEPT ![c].kills = @ + 1] ELSE ps

Min(a, b) == IF a < b THEN a ELSE b
Max(a, b) == IF a > b THEN a ELSE b

\* ------------------------------------------------- the notification source
\* acme appends a notification to the log file
Deliver(e) ==
    /\ ~exited
    /\ nTrig < MaxTriggers
    /\ log' = Append(log, e)
    /\ nTrig' = nTrig + 1
    /\ burst' = IF ~Qualifies(e) \/ ~burst.tight THEN burst
                ELSE IF (burst.n = 0 /\ needrun = <<>>) \/ (burst.n > 0 /\ burst.age < SleepMs)
                     THEN [burst EXCEPT !.n = @ + 1]
                     ELSE Loose
    /\ UNCHANGED <<term, environ, exited, fatal, readerPc, sleepLeft, needrun, run,
                   runnerPc, event, id, lastcmd, procs, win, trig>>

\* the passage of TickMs milliseconds
Tick ==
    /\ ~exited
    /\ \/ readerPc = "sleep" /\ sleepLeft > 0
       \/ burst.n > 0 /\ burst.age < SleepMs
    /\ sleepLeft' = Max(0, sleepLeft - TickMs)
    /\ burst' = IF burst.n > 0
                THEN [burst EXCEPT !.age = Min(SleepMs, @ + TickMs)]
                ELSE burst
    /\ UNCHANGED <<term, environ, exited, fatal, log, nTrig, readerPc, needrun, run,
                   runnerPc, event, id, lastcmd, procs, win, trig>>

\* ------------------------------------------------- main: the reader loop
\* one iteration of the for loop, up to the call of time.Sleep
ReaderRead ==
    /\ ~exited
    /\ readerPc = "read"
    /\ log # <<>>
    /\ log' = Tail(log)
    /\ IF Qualifies(Head(log))
       THEN /\ needrun' = Offer(needrun, Ptr(Head(log)))
            /\ readerPc' = "sleep"
            /\ sleepLeft' = SleepMs
            /\ trig' = TRUE
       ELSE UNCHANGED <<needrun, readerPc, sleepLeft, trig>>
    /\ UNCHANGED <<term, environ, exited, fatal, nTrig, run, runnerPc, event, id,
                   lastcmd, procs, win, burst>>

\* time.Sleep returns
ReaderWake ==
    /\ ~exited
    /\ readerPc = "sleep"
    /\ sleepLeft = 0
    /\ readerPc' = "read"
    /\ UNCHANGED <<term, environ, exited, fatal, log, nTrig, sleepLeft, needrun, run,
                   runnerPc, event, id, lastcmd, procs, win, trig, burst>>

\* l.Read returns an error: log.Fatal
ReaderFail ==
    /\ ~exited
    /\ readerPc = "read"
    /\ Exit("l.Read")

\* ------------------------------------------------------------- events
\* the user executes Get in the window
EventsGet ==
    /\ ~exited
    /\ ~term
    /\ nTrig < MaxTriggers
    /\ nTrig' = nTrig + 1
    /\ needrun' = Offer(needrun, Nil)
    /\ trig' = TRUE
    /\ burst' = Loose
    /\ UNCHANGED <<term, environ, exited, fatal, log, readerPc, sleepLeft, run,
                   runnerPc, event, id, lastcmd, procs, win>>

\* the user executes Del: the window goes away, the event channel is
\* closed and events calls os.Exit(0)
EventsDel ==
    /\ ~exited
    /\ ~term
    /\ Exit("Del")

\* ------------------------------------------------------------- runner
\* a loop that kills the previous command as soon as it has received the
\* signal, before run.id is incremented
RunnerRecvKill ==
    /\ ~exited
    /\ ~term
    /\ runnerPc = "recv"
    /\ needrun # <<>>
    /\ event' = Head(needrun)
    /\ needrun' = Tail(needrun)
    /\ runnerPc' = "lock"
    /\ procs' = Kill(procs, lastcmd)
    /\ burst' = IF burst.n > 0 THEN [burst EXCEPT !.recv = @ + 1] ELSE burst
    /\ UNCHANGED <<term, environ, exited, fatal, log, nTrig, readerPc, sleepLeft,
                   run, id, lastcmd, win, trig>>

\* for event := range needrun
RunnerRecv ==
    /\ ~exited
    /\ ~term
    /\ runnerPc = "recv"
    /\ needrun # <<>>
    /\ event' = Head(needrun)
    /\ needrun' = Tail(needrun)
    /\ runnerPc' = "lock"
    /\ burst' = IF burst.n > 0 THEN [burst EXCEPT !.recv = @ + 1] ELSE burst
    /\ UNCHANGED <<term, environ, exited, fatal, log, nTrig, readerPc, sleepLeft, run,
                   id, lastcmd, procs, win, trig>>

\* run.Lock()
RunnerLock ==
    /\ ~exited
    /\ runnerPc = "lock"
    /\ run.mu = Free
    /\ run' = [run EXCEPT !.mu = RunnerHolder]
    /\ runnerPc' = "incr"
    /\ UNCHANGED <<term, environ, exited, fatal, log, nTrig, readerPc, sleepLeft,
                   needrun, event, id, lastcmd, procs, win, trig, burst>>

\* RunnerIncr without the increment: id := run.id
RunnerIncrSame ==
    /\ ~exited
    /\ runnerPc = "incr"
    /\ run' = [run EXCEPT !.mu = Free]
    /\ id' = run.id
    /\ runnerPc' = "kill"
    /\ UNCHANGED <<term, environ, exited, fatal, log, nTrig, readerPc, sleepLeft,
                   needrun, event, lastcmd, procs, win, trig, burst>>

\* run.id++; id := run.id; run.Unlock()
RunnerIncr ==
    /\ ~exited
    /\ runnerPc = "incr"
    /\ run' = [id |-> run.id + 1, mu |-> Free]
    /\ id' = run.id + 1
    /\ runnerPc' = "kill"
    /\ UNCHANGED <<term, environ, exited, fatal, log, nTrig, readerPc, sleepLeft,
                   needrun, event, lastcmd, procs, win, trig, burst>>

\* RunnerKill without lastcmd = nil
RunnerKillKeep ==
    /\ ~exited
    /\ ~term
    /\ runnerPc = "kill"
    /\ procs' = Kill(procs, lastcmd)
    /\ runnerPc' = "pipe"
    /\ UNCHANGED <<term, environ, exited, fatal, log, nTrig, readerPc, sleepLeft,
                   needrun, run, event, id, lastcmd, win, trig, burst>>

\* if lastcmd != nil { lastcmd.Process.Kill() }; lastcmd = nil
RunnerKill ==
    /\ ~exited
    /\ ~term
    /\ runnerPc = "kill"
    /\ procs' = Kill(procs, lastcmd)
    /\ lastcmd' = 0
    /\ runnerPc' = "pipe"
    /\ UNCHANGED <<term, environ, exited, fatal, log, nTrig, readerPc, sleepLeft,
                   needrun, run, event, id, win, trig, burst>>

\* os.Pipe fails: log.Fatal
RunnerPipeFail ==
    /\ ~exited
    /\ runnerPc = "pipe"
    /\ Exit("os.Pipe")

\* os.Pipe succeeds; win.Addr(","), win.Write("data", nil), win.Ctl("clean"),
\* win.Fprintf("body", "$ %s\n", ...)
RunnerHeader ==
    /\ ~exited
    /\ runnerPc = "pipe"
    /\ win' = Put(Clear(id, RunnerHolder), "header", id, RunnerHolder)
    /\ runnerPc' = "start"
    /\ UNCHANGED <<term, environ, exited, fatal, log, nTrig, readerPc, sleepLeft,
                   needrun, run, event, id, lastcmd, procs, trig, burst>>

\* cmd.Start succeeds: lastcmd = cmd; w.Close(); go func() {...}()
RunnerStartOk ==
    /\ ~exited
    /\ ~term
    /\ runnerPc = "start"
    /\ procs' = Append(procs, NewProc(id, event, "read"))
    /\ lastcmd' = Len(procs) + 1
    /\ trig' = FALSE
    /\ runnerPc' = "recv"
    /\ event' = Nil
    /\ id' = 0
    /\ UNCHANGED <<term, environ, exited, fatal, log, nTrig, readerPc, sleepLeft,
                   needrun, run, win, burst>>

\* RunnerStartFail without the error line, as termRunner does
RunnerStartFailSilent ==
    /\ ~exited
    /\ ~term
    /\ runnerPc = "start"
    /\ trig' = FALSE
    /\ runnerPc' = "recv"
    /\ event' = Nil
    /\ id' = 0
    /\ UNCHANGED <<term, environ, exited, fatal, log, nTrig, readerPc, sleepLeft,
                   needrun, run, lastcmd, procs, win, burst>>

\* cmd.Start fails: the error line, then continue
RunnerStartFail ==
    /\ ~exited
    /\ ~term
    /\ runnerPc = "start"
    /\ win' = Put(win, "startfail", id, RunnerHolder)
    /\ trig' = FALSE
    /\ runnerPc' = "recv"
    /\ event' = Nil
    /\ id' = 0
    /\ UNCHANGED <<term, environ, exited, fatal, log, nTrig, readerPc, sleepLeft,
                   needrun, run, lastcmd, procs, burst>>

\* ----------------------------------------------------------- termRunner
\* for event := range needrun
TermRecv ==
    /\ ~exited
    /\ term
    /\ runnerPc = "recv"
    /\ needrun # <<>>
    /\ event' = Head(needrun)
    /\ needrun' = Tail(needrun)
    /\ runnerPc' = "kill"
    /\ burst' = IF burst.n > 0 THEN [burst EXCEPT !.recv = @ + 1] ELSE burst
    /\ UNCHANGED <<term, environ, exited, fatal, log, nTrig, readerPc, sleepLeft, run,
                   id, lastcmd, procs, win, trig>>

\* if lastcmd != nil { lastcmd.Process.Kill() }; lastcmd = nil
TermKill ==
    /\ ~exited
    /\ term
    /\ runnerPc = "kill"
    /\ procs' = Kill(procs, lastcmd)
    /\ lastcmd' = 0
    /\ runnerPc' = "start"
    /\ UNCHANGED <<term, environ, exited, fatal, log, nTrig, readerPc, sleepLeft,
                   needrun, run, event, id, win, trig, burst>>

\* cmd.Start succeeds: lastcmd = cmd; go func() { cmd.Wait() }()
TermStartOk ==
    /\ ~exited
    /\ term
    /\ runnerPc = "start"
    /\ procs' = Append(procs, NewProc(0, event, "wait"))
    /\ lastcmd' = Len(procs) + 1
    /\ trig' = FALSE
    /\ runnerPc' = "recv"
    /\ event' = Nil
    /\ UNCHANGED <<term, environ, exited, fatal, log, nTrig, readerPc, sleepLeft,
                   needrun, run, id, win, burst>>

\* cmd.Start fails: continue
TermStartFail ==
    /\ ~exited
    /\ term
    /\ runnerPc = "start"
    /\ trig' = FALSE
    /\ runnerPc' = "recv"
    /\ event' = Nil
    /\ UNCHANGED <<term, environ, exited, fatal, log, nTrig, readerPc, sleepLeft,
                   needrun, run, id, lastcmd, procs, win, burst>>

\* ------------------------------------------------- the started commands
\* the command writes to its standard output: into the pipe, or with -t
\* straight to the terminal
ProcWrite(i) ==
    /\ ~exited
    /\ i \in 1..Len(procs)
    /\ procs[i].st = "running"
    /\ procs[i].left > 0
    /\ IF term
       THEN /\ procs' = [procs EXCEPT ![i].left = @ - 1]
            /\ win' = Put(win, "out", 0, i)
       ELSE /\ procs' = [procs EXCEPT ![i].left = @ - 1, ![i].pipe = @ + 1]
            /\ win' = win
    /\ UNCHANGED <<term, environ, exited, fatal, log, nTrig, readerPc, sleepLeft,
                   needrun, run, runnerPc, event, id, lastcmd, trig, burst>>

\* the command ends by itself, with status 0 or not
ProcExit(i, err) ==
    /\ ~exited
    /\ i \in 1..Len(procs)
    /\ procs[i].st = "running"
    /\ procs' = [procs EXCEPT ![i].st = IF err THEN "exit1" ELSE "exit0", ![i].left = 0]
    /\ UNCHANGED <<term, environ, exited, fatal, log, nTrig, readerPc, sleepLeft,
                   needrun, run, runnerPc, event, id, lastcmd, win, trig, burst>>

\* the signal sent by Process.Kill ends the command
ProcKilled(i) ==
    /\ ~exited
    /\ i \in 1..Len(procs)
    /\ procs[i].st = "running"
    /\ procs[i].kills > 0
    /\ procs' = [procs EXCEPT ![i].st = "killed", ![i].left = 0]
    /\ UNCHANGED <<term, environ, exited, fatal, log, nTrig, readerPc, sleepLeft,
                   needrun, run, runnerPc, event, id, lastcmd, win, trig, burst>>

\* ------------------------------------------ the relay goroutine of runner
\* a relay that reads on only while its generation is the current one
RelayReadCurrent(i) ==
    /\ ~exited
    /\ i \in 1..Len(procs)
    /\ procs[i].pc = "read"
    /\ procs[i].pipe > 0
    /\ procs[i].gen = run.id
    /\ run.mu = Free
    /\ run' = [run EXCEPT !.mu = i]
    /\ procs' = [procs EXCEPT ![i].pipe = @ - 1, ![i].pc = "chunk"]
    /\ UNCHANGED <<term, environ, exited, fatal, log, nTrig, readerPc, sleepLeft,
                   needrun, runnerPc, event, id, lastcmd, win, trig, burst>>

\* n, err := r.Read(buf) returns a chunk; run.Lock()
RelayRead(i) ==
    /\ ~exited
    /\ i \in 1..Len(procs)
    /\ procs[i].pc = "read"
    /\ procs[i].pipe > 0
    /\ run.mu = Free
    /\ run' = [run EXCEPT !.mu = i]
    /\ procs' = [procs EXCEPT ![i].pipe = @ - 1, ![i].pc = "chunk"]
    /\ UNCHANGED <<term, environ, exited, fatal, log, nTrig, readerPc, sleepLeft,
                   needrun, runnerPc, event, id, lastcmd, win, trig, burst>>

\* RelayChunk without the comparison of id with run.id
RelayChunkUnchecked(i) ==
    /\ ~exited
    /\ i \in 1..Len(procs)
    /\ procs[i].pc = "chunk"
    /\ win' = Put(win, "chunk", procs[i].gen, i)
    /\ procs' = [procs EXCEPT ![i].pc = "read"]
    /\ run' = [run EXCEPT !.mu = Free]
    /\ UNCHANGED <<term, environ, exited, fatal, log, nTrig, readerPc, sleepLeft,
                   needrun, runnerPc, event, id, lastcmd, trig, burst>>

\* if id == run.id { win.Write("body", buf[:n]) }; run.Unlock()
RelayChunk(i) ==
    /\ ~exited
    /\ i \in 1..Len(procs)
    /\ procs[i].pc = "chunk"
    /\ IF procs[i].gen = run.id
       THEN /\ win' = Put(win, "chunk", procs[i].gen, i)
            /\ procs' = [procs EXCEPT ![i].pc = "read"]
       ELSE /\ win' = win
            /\ procs' = [procs EXCEPT ![i].pc = "read", ![i].dropped = @ + 1]
    /\ run' = [run EXCEPT !.mu = Free]
    /\ UNCHANGED <<term, environ, exited, fatal, log, nTrig, readerPc, sleepLeft,
                   needrun, runnerPc, event, id, lastcmd, trig, burst>>

\* r.Read returns an error (end of data): break; cmd.Wait() returns nil
RelayWaitOk(i) ==
    /\ ~exited
    /\ i \in 1..Len(procs)
    /\ procs[i].pc = "read"
    /\ procs[i].pipe = 0
    /\ procs[i].st = "exit0"
    /\ procs' = [procs EXCEPT ![i].pc = "marker"]
    /\ UNCHANGED <<term, environ, exited, fatal, log, nTrig, readerPc, sleepLeft,
                   needrun, run, runnerPc, event, id, lastcmd, win, trig, burst>>

\* r.Read returns an error (end of data): break; cmd.Wait() returns an
\* error; run.Lock()
RelayWaitErr(i) ==
    /\ ~exited
    /\ i \in 1..Len(procs)
    /\ procs[i].pc = "read"
    /\ procs[i].pipe = 0
    /\ procs[i].st \in {"exit1", "killed"}
    /\ run.mu = Free
    /\ run' = [run EXCEPT !.mu = i]
    /\ procs' = [procs EXCEPT ![i].pc = "fail"]
    /\ UNCHANGED <<term, environ, exited, fatal, log, nTrig, readerPc, sleepLeft,
                   needrun, runnerPc, event, id, lastcmd, win, trig, burst>>

\* RelayFail without the comparison of id with run.id
RelayFailUnchecked(i) ==
    /\ ~exited
    /\ i \in 1..Len(procs)
    /\ procs[i].pc = "fail"
    /\ win' = Put(win, "fail", procs[i].gen, i)
    /\ procs' = [procs EXCEPT ![i].pc = "marker"]
    /\ run' = [run EXCEPT !.mu = Free]
    /\ UNCHANGED <<term, environ, exited, fatal, log, nTrig, readerPc, sleepLeft,
                   needrun, runnerPc, event, id, lastcmd, trig, burst>>

\* if id == run.id { win.Fprintf("body", "%s: %s\n", ...) }; run.Unlock()
RelayFail(i) ==
    /\ ~exited
    /\ i \in 1..Len(procs)
    /\ procs[i].pc = "fail"
    /\ win' = IF procs[i].gen = run.id THEN Put(win, "fail", procs[i].gen, i) ELSE win
    /\ procs' = [procs EXCEPT ![i].pc = "marker"]
    /\ run' = [run EXCEPT !.mu = Free]
    /\ UNCHANGED <<term, environ, exited, fatal, log, nTrig, readerPc, sleepLeft,
                   needrun, runnerPc, event, id, lastcmd, trig, burst>>

\* win.Fprintf("body", "$\n"); win.Fprintf("addr", "#0"); win.Ctl("dot=addr");
\* win.Ctl("show"); win.Ctl("clean")
RelayMarker(i) ==
    /\ ~exited
    /\ i \in 1..Len(procs)
    /\ procs[i].pc = "marker"
    /\ win' = Put(win, "marker", procs[i].gen, i)
    /\ procs' = [procs EXCEPT ![i] = Done(@)]
    /\ UNCHANGED <<term, environ, exited, fatal, log, nTrig, readerPc, sleepLeft,
                   needrun, run, runnerPc, event, id, lastcmd, trig, burst>>

\* the goroutine of termRunner: _ = cmd.Wait()
TermWait(i) ==
    /\ ~exited
    /\ i \in 1..Len(procs)
    /\ procs[i].pc = "wait"
    /\ procs[i].st # "running"
    /\ procs' = [procs EXCEPT ![i] = Done(@)]
    /\ UNCHANGED <<term, environ, exited, fatal, log, nTrig, readerPc, sleepLeft,
                   needrun, run, runnerPc, event, id, lastcmd, win, trig, burst>>

\* ------------------------------------------------------ specification
Reader == ReaderRead \/ ReaderWake \/ ReaderFail

Events == EventsGet \/ EventsDel

Runner ==
    \/ RunnerRecv \/ RunnerLock \/ RunnerIncr \/ RunnerKill \/ RunnerPipeFail
    \/ RunnerHeader \/ RunnerStartOk \/ RunnerStartFail

TermRunner == TermRecv \/ TermKill \/ TermStartOk \/ TermStartFail

Proc(i) == ProcWrite(i) \/ ProcKilled(i) \/ (\E err \in BOOLEAN : ProcExit(i, err))

Relay(i) ==
    \/ RelayRead(i) \/ RelayChunk(i) \/ RelayWaitOk(i) \/ RelayWaitErr(i)
    \/ RelayFail(i) \/ RelayMarker(i) \/ TermWait(i)

Next ==
    \/ \E e \in EventSet : Deliver(e)
    \/ Tick
    \/ Reader
    \/ Events
    \/ Runner
    \/ TermRunner
    \/ \E i \in 1..MaxProcs : Proc(i)
    \/ \E i \in 1..MaxProcs : Relay(i)

Spec == Init /\ [][Next]_vars

\* The Go scheduler runs every goroutine that can run, and a goroutine
\* waiting for run.Mutex gets it (sync.Mutex hands the lock over to a waiter
\* that has waited long); the commands, the user and acme owe nothing.
Fairness ==
    /\ WF_vars(Runner)
    /\ SF_vars(RunnerLock)
    /\ WF_vars(TermRunner)
    /\ \A i \in 1..MaxProcs : WF_vars(RelayChunk(i) \/ RelayFail(i))

LiveSpec == Init /\ [][Next]_vars /\ Fairness

\* Of the relay goroutines that can run, and the supervisor loop when it
\* holds run.Mutex, one is eventually run.
RelayFairness == WF_vars(RunnerIncr \/ \E i \in 1..MaxProcs : Relay(i))

DrainSpec == Spec /\ RelayFairness

\* --------------------------------------------- envOf checked by itself
\* The supervisor loop stands at cmd.Env = envOf(event) with no command
\* started before: on the start-up signal (c is nil), or on a notification
\* received after the start-up attempt has failed.  The environment E and the
\* context c are the inputs of envOf.
AtEnvOf(t, E, c) ==
    LET g == IF t THEN 0 ELSE IF c = Nil THEN 1 ELSE 2
    IN  /\ term = t
        /\ environ = E
        /\ exited = FALSE
        /\ fatal = ""
        /\ log = <<>>
        /\ nTrig = IF c = Nil THEN 0 ELSE 1
        /\ readerPc = IF c = Nil THEN "read" ELSE "sleep"
        /\ sleepLeft = IF c = Nil THEN 0 ELSE SleepMs
        /\ needrun = <<>>
        /\ run = [id |-> g, mu |-> Free]
        /\ runnerPc = "start"
        /\ event = c
        /\ id = g
        /\ lastcmd = 0
        /\ procs = <<>>
        /\ win = IF t THEN <<>>
                 ELSE << [op |-> "clear", gen |-> g, locked |-> FALSE, current |-> TRUE],
                         [op |-> "header", gen |-> g, locked |-> FALSE, current |-> TRUE] >>
        /\ trig = (c # Nil)
        /\ burst = IF c = Nil THEN NoBurst ELSE Loose

Contexts == {Nil, Ptr(EvPutA), Ptr(EvPutB), Ptr(EvPutA12)}

EnvInit == \E t \in BOOLEAN, E \in Environs, c \in Contexts : AtEnvOf(t, E, c)

EnvNext == RunnerStartOk \/ RunnerStartFail \/ TermStartOk \/ TermStartFail

EnvSpec == EnvInit /\ [][EnvNext]_vars


\* ------------------------------------- the reader loop on any notification
\* The program as in Spec, with the first notification, any of LogEvents,
\* already in the log when main's set-up ends.
FirstInLog(t, e) ==
    /\ term = t
    /\ environ = AmbientEnv
    /\ exited = FALSE
    /\ fatal = ""
    /\ log = <<e>>
    /\ nTrig = 1
    /\ readerPc = "read"
    /\ sleepLeft = 0
    /\ needrun = <<Nil>>
    /\ run = [id |-> 0, mu |-> Free]
    /\ runnerPc = "recv"
    /\ event = Nil
    /\ id = 0
    /\ lastcmd = 0
    /\ procs = <<>>
    /\ win = <<>>
    /\ trig = FALSE
    /\ burst = IF Qualifies(e) THEN Loose ELSE NoBurst

FilterInit == \E t \in BOOLEAN, e \in LogEvents : FirstInLog(t, e)

FilterSpec == FilterInit /\ [][Next]_vars

\* ------------------------------------------------------------- claims
WinIdx == 1..Len(win)
ProcIdx == 1..Len(procs)

\* C1: a chunk of output is in the window only if it was written while its
\* relay held run.Mutex and its generation was run.id, so no chunk of a
\* superseded invocation reaches the window.
C1_StaleDiscard ==
    \A k \in WinIdx : win[k].op = "chunk" => win[k].current /\ win[k].locked

\* a relay has read a chunk of a superseded invocation and discarded it
C1_Dropped ==
    \E i \in ProcIdx : procs[i].dropped > 0 /\ procs[i].gen < run.id

\* C2: the end-of-run marker of a relay is in the window only if the
\* relay's generation was run.id when it was written.
C2_MarkerGated ==
    \A k \in WinIdx : win[k].op = "marker" => win[k].current

\* the generations of the commands runner has started are strictly
\* increasing in the order of their start, and none exceeds run.id
C3_GenerationsIncrease ==
    ~term => /\ \A i, j \in ProcIdx : i < j => procs[i].gen < procs[j].gen
             /\ \A i \in ProcIdx : procs[i].gen \in 1..run.id

\* a step that changes run.id is runner's increment: by one, with runner
\* holding run.Mutex, and the new value is the one runner captures in id
C3_OnlyRunnerIncrements ==
    (run.id' # run.id /\ ~exited') =>
        /\ run.id' = run.id + 1
        /\ run.mu = RunnerHolder
        /\ runnerPc = "incr"
        /\ id' = run.id'

\* C3: run.id changes only in runner's increment, by one and with runner
\* holding run.Mutex; the generations of the started commands are strictly
\* increasing in the order of their start, so none is given twice.
C3_GenMonotone == [][C3_OnlyRunnerIncrements]_vars /\ []C3_GenerationsIncrease

\* three commands have been started by runner, one after the other
C3_ThreeStarts == ~term /\ Len(procs) >= 3

\* C4: once a burst of qualifying notifications, all delivered less than
\* SleepMs after the first, has been read to its end and served, runner
\* has received exactly one signal since the burst began.
C4_Coalesced ==
    (/\ ~term /\ burst.tight /\ burst.n >= 1
     /\ log = <<>> /\ needrun = <<>> /\ runnerPc = "recv") => burst.recv = 1

\* C5: needrun never holds more than one signal, and the send of the reader
\* loop and the send of the Get handler can always be done at once.
C5_NeverBlocks ==
    /\ Len(needrun) <= 1
    /\ (~exited /\ readerPc = "read" /\ log # <<>>) => ENABLED ReaderRead
    /\ (~exited /\ ~term /\ nTrig < MaxTriggers) => ENABLED EventsGet

\* the reader has offered a notification (it sleeps) while the signal of
\* the start-up was still in needrun: the notification was dropped
C5_DroppedOnFull ==
    /\ readerPc = "sleep" /\ needrun = <<Nil>>
    /\ runnerPc = "recv" /\ procs = <<>> /\ win = <<>>

\* the step of runner in which cmd.Start fails
C6_FailedStartStep ==
    (~term /\ ~exited' /\ runnerPc = "start" /\ runnerPc' # "start"
           /\ Len(procs') = Len(procs)) =>
        /\ Len(win') = Len(win) + 1
        /\ SubSeq(win', 1, Len(win)) = win
        /\ win'[Len(win')].op = "startfail" /\ win'[Len(win')].gen = id
        /\ procs' = procs
        /\ lastcmd = 0 /\ lastcmd' = 0
        /\ needrun' = needrun
        /\ runnerPc' = "recv"

\* C6: a step of runner in which cmd.Start fails adds exactly one error
\* line of the attempt's generation to the window, starts no relay, leaves
\* lastcmd nil, puts nothing in needrun and returns to the receive of the
\* next signal.
C6_StartFailure == [][C6_FailedStartStep]_vars

\* runner is back at the receive after a failed start
C6_AfterFailure ==
    /\ ~term /\ runnerPc = "recv" /\ lastcmd = 0
    /\ win # <<>> /\ win[Len(win)].op = "startfail"

\* the step in which a relay examines the failed exit of its command
C7_FailStep ==
    \A i \in ProcIdx :
        (procs[i].pc = "fail" /\ ~exited' /\ procs'[i].pc # "fail") =>
            /\ run.mu = i
            /\ IF procs[i].gen = run.id
               THEN win' = Append(win, [op |-> "fail", gen |-> procs[i].gen,
                                        locked |-> TRUE, current |-> TRUE])
               ELSE win' = win

\* C7: when a relay examines a failed exit it holds run.Mutex, and the
\* failure line is added to the window if its generation is run.id, and
\* nothing is added otherwise; no failure line of a superseded invocation is
\* in the window.
C7_FailureIffCurrent ==
    [][C7_FailStep]_vars /\ [](\A k \in WinIdx : win[k].op = "fail" => win[k].current)

\* a superseded relay has passed the examination of its failed exit
\* without a line, and the current one has written its failure line
C7_BothCases ==
    /\ \E i \in ProcIdx :
          procs[i].pc = "marker" /\ procs[i].st \in {"exit1", "killed"}
          /\ procs[i].gen < run.id
    /\ \E k \in WinIdx : win[k].op = "fail" /\ win[k].gen = run.id

\* C8: when the supervisor loop is about to start a command, and ever
\* after, every command started before has had its Kill requested; and in
\* runner the generation of the new attempt is one more than that of the
\* command it kills.
C8_KillBeforeStart ==
    /\ \A i \in ProcIdx :
          (i < Len(procs) \/ runnerPc \in {"pipe", "start"}) => procs[i].kills >= 1
    /\ lastcmd # 0 => lastcmd = Len(procs)
    /\ (~term /\ runnerPc = "kill" /\ lastcmd # 0) => id = procs[lastcmd].gen + 1

\* a command has been started while the one before it, signalled, is
\* still running: runner has not waited for it
C8_StartedWhileOldRuns ==
    /\ Len(procs) >= 2
    /\ procs[1].st = "running" /\ procs[1].kills = 1
    /\ ~term /\ procs[2].gen = procs[1].gen + 1

\* C9: under Fairness, after every trigger (a qualifying notification read
\* or a Get, accepted or dropped) the supervisor loop later makes an
\* attempt to start the command, unless the program ends first.
C9_TriggerServed == trig ~> (~trig \/ exited)

\* a trigger has been served: a second command runs and no trigger is
\* waiting for its start
C9_Served == Len(procs) >= 2 /\ ~trig /\ nTrig >= 1 /\ log = <<>>

\* C10: every operation on the window is done by a goroutine that holds
\* run.Mutex.
C10_AllLocked ==
    ~term => \A k \in WinIdx : win[k].locked

\* C11: in window mode the generations of the items in the window never
\* decrease from one item to the next: once an item of generation g + 1 has
\* been written, no item of generation g or less is written
C11_GenOrder ==
    ~term => \A j, k \in WinIdx : j < k => win[j].gen <= win[k].gen

\* C12: an error of one invocation never ends the program and is always
\* shown: a start attempt that fails adds a line to the window or terminal,
\* a non-zero exit of the latest command with -t adds one as well, and the
\* program ends only for a failure of the notification source or the end of
\* the window
C12_FailureStep ==
    /\ (runnerPc = "start" /\ runnerPc' = "recv" /\ ~exited' /\ Len(procs') = Len(procs))
           => Len(win') = Len(win) + 1
    /\ \A i \in ProcIdx :
           (term /\ ~exited' /\ procs[i].pc = "wait" /\ procs[i].st = "exit1"
                 /\ procs[i].kills = 0 /\ procs'[i].pc = "done")
               => Len(win') = Len(win) + 1
    /\ (~exited /\ exited') => fatal' \in {"l.Read", "Del"}

C12_ErrorsSurfaced == [][C12_FailureStep]_vars

\* C13: a signal pending in needrun is never replaced or changed by a later
\* trigger; the supervisor loop receives exactly the pending signal, and the
\* command it starts gets the context of that signal and the environment
\* envOf derives from it
C13_ContextStep ==
    /\ (needrun # <<>> /\ needrun' # <<>>) => needrun' = needrun
    /\ (~exited' /\ runnerPc = "recv" /\ runnerPc' # "recv")
           => (event' = Head(needrun) /\ needrun' = Tail(needrun))
    /\ (~exited' /\ Len(procs') = Len(procs) + 1)
           => /\ procs'[Len(procs')].ctx = event
              /\ procs'[Len(procs')].env = envOf(event)

C13_FirstContextWins == [][C13_ContextStep]_vars

\* the start-up signal was pending when the reader offered a notification:
\* the command was started once, without a context, and the loop waits
C13_LaterContextLost ==
    /\ ~term /\ ~exited
    /\ nTrig = 1 /\ log = <<>> /\ readerPc = "sleep"
    /\ needrun = <<>> /\ runnerPc = "recv" /\ run.id = 1
    /\ Len(procs) = 1 /\ procs[1].ctx = Nil

\* an entry whose key is k: it is k alone, or starts with k followed by "="
C14_HasKey(v, k) == v = k \/ IsPrefix(k \o <<"=">>, v)

C14_Reserved(v) == \E k \in ReservedKeys : C14_HasKey(v, k)

\* the number a string of decimal digits stands for
RECURSIVE C14_Atoi(_)
C14_Atoi(d) ==
    IF d = <<>> THEN 0
    ELSE 10 * C14_Atoi(SubSeq(d, 1, Len(d) - 1))
         + (CHOOSE n \in 0..9 : Digits[n + 1] = d[Len(d)])

C14_Decimal(d, n) ==
    /\ d # <<>>
    /\ \A j \in 1..Len(d) : \E m \in 1..10 : Digits[m] = d[j]
    /\ Len(d) > 1 => d[1] # "0"
    /\ C14_Atoi(d) = n

\* C14: the environment of every started command is the ambient environment
\* without the entries whose key is samfile, % or winid, the other entries
\* unchanged and in order, followed when there is a context by exactly
\* samfile=Name, %=Name and winid=ID in decimal; without a context no entry
\* of the result has one of the three keys
C14_EnvDerivation ==
    \A i \in ProcIdx :
        LET r    == procs[i].env
            c    == procs[i].ctx
            kept == {j \in 1..Len(environ) : ~C14_Reserved(environ[j])}
            n    == Cardinality(kept)
            Nth(j) == CHOOSE m \in kept : Cardinality({l \in kept : l < m}) = j - 1
        IN  /\ Len(r) = n + (IF c = Nil THEN 0 ELSE 3)
            /\ \A j \in 1..n : r[j] = environ[Nth(j)]
            /\ c = Nil => \A j \in 1..Len(r) : ~C14_Reserved(r[j])
            /\ c # Nil =>
                 /\ r[n + 1] = <<"s", "a", "m", "f", "i", "l", "e", "=">> \o c[1].Name
                 /\ r[n + 2] = <<"%", "=">> \o c[1].Name
                 /\ IsPrefix(<<"w", "i", "n", "i", "d", "=">>, r[n + 3])
                 /\ C14_Decimal(SubSeq(r[n + 3], 7, Len(r[n + 3])), c[1].ID)

\* a command started for a notification of window 12, in an environment
\* with an entry acme has set before an entry it has not
C14_Derived ==
    /\ Len(environ) = 2 /\ C14_Reserved(environ[1]) /\ ~C14_Reserved(environ[2])
    /\ \E i \in ProcIdx : procs[i].ctx = Ptr(EvPutA12) /\ Len(procs[i].env) = 4

\* the base name of a path: what follows its last "/"
C15_Base(s) ==
    IF \E i \in 1..Len(s) : s[i] = "/"
    THEN SubSeq(s, (CHOOSE i \in 1..Len(s) :
                        s[i] = "/" /\ \A j \in (i + 1)..Len(s) : s[j] # "/") + 1, Len(s))
    ELSE s

\* the path lies under the directory d
C15_Under(s, d) == IsPrefix(d \o <<"/">>, s)

C15_Qualifying(e) ==
    /\ e.Op = "put"
    /\ C15_Under(e.Name, pwd)
    /\ MatchString(pattern, C15_Base(e.Name))

\* C15: the reader loop offers a notification to needrun and pauses if and
\* only if the operation is "put", the path lies under the working
\* directory and the base name matches the -only pattern; after reading any
\* other notification needrun, run.id and the window are as before and the
\* loop reads on without a pause
C15_ReadStep ==
    (~exited' /\ readerPc = "read" /\ log # <<>> /\ log' = Tail(log)) =>
        IF C15_Qualifying(Head(log))
        THEN /\ readerPc' = "sleep"
             /\ needrun' \in {needrun, Append(needrun, Ptr(Head(log)))}
        ELSE /\ readerPc' = "read"
             /\ needrun' = needrun /\ run' = run /\ win' = win

C15_Filtering == [][C15_ReadStep]_vars

\* C16: as long as no notification has been delivered and Get has not been
\* executed, the only signal is the one without context that main has put in
\* needrun before the loops run; the supervisor loop serves it once (as
\* generation 1 in window mode), the command it starts has no context and an
\* environment without the keys samfile, % and winid, and afterwards the loop
\* waits on the empty channel
C16_StartupRun ==
    (~exited /\ nTrig = 0) =>
        /\ Len(procs) <= 1 /\ run.id <= 1
        /\ \A i \in ProcIdx :
               /\ procs[i].ctx = Nil
               /\ ~term => procs[i].gen = 1
               /\ \A j \in 1..Len(procs[i].env) :
                      Split0(procs[i].env[j]) \notin ReservedKeys
        /\ needrun # <<>> =>
               (needrun = <<Nil>> /\ runnerPc = "recv" /\ procs = <<>> /\ run.id = 0)
        /\ (needrun = <<>> /\ runnerPc = "recv") =>
               /\ ~term => run.id = 1
               /\ ~ENABLED Runner /\ ~ENABLED TermRunner

\* the start-up run has come and gone, and the loop waits
C16_RanOnce ==
    /\ ~term /\ ~exited /\ nTrig = 0
    /\ Len(procs) = 1 /\ procs[1].pc = "done" /\ procs[1].gen = 1
    /\ needrun = <<>> /\ runnerPc = "recv"

\* a relay has left its read loop only at the end of the data: the command
\* has ended and nothing it wrote is left in the pipe; and a chunk in the
\* pipe can be read as soon as run.Mutex is free, whatever the generation
C17_ReadsAll ==
    ~term => \A i \in ProcIdx :
        /\ procs[i].pc \in {"fail", "marker", "done"}
               => (procs[i].pipe = 0 /\ procs[i].left = 0 /\ procs[i].st # "running")
        /\ (procs[i].pc = "read" /\ procs[i].pipe > 0 /\ run.mu = Free)
               => ENABLED RelayRead(i)

\* the command of some relay has ended and the relay has not returned
C17_Pending ==
    ~term /\ \E i \in ProcIdx :
        procs[i].st \in {"exit0", "exit1", "killed"} /\ procs[i].pc # "done"

\* C17: in window mode a relay reads every chunk of its command until the
\* end of the data, whether its generation is current or not, and once the
\* command has ended the relay returns
C17_Drains == []C17_ReadsAll /\ (C17_Pending ~> ~C17_Pending)

\* a superseded relay has read the chunk of its command and dropped it, and
\* nothing is left to read
C17_StaleDrained ==
    ~term /\ \E i \in ProcIdx :
        /\ procs[i].gen < run.id /\ procs[i].dropped > 0 /\ procs[i].pc = "read"
        /\ procs[i].pipe = 0 /\ procs[i].left = 0

\* C18: in window mode a command is sent the kill only after run.id has
\* passed its generation, so the relay of a command that was killed finds
\* its generation stale when it looks at the result of cmd.Wait, and its
\* step after cmd.Wait writes nothing to the window
C18_KilledStep ==
    ~term => \A i \in ProcIdx :
        /\ procs[i].kills > 0 => procs[i].gen < run.id
        /\ (~exited' /\ procs[i].st = "killed" /\ procs[i].pc = "fail"
                     /\ procs'[i].pc # "fail")
               => win' = win

C18_KillNotShown == [][C18_KilledStep]_vars

\* the relay of a killed command has looked at the result of cmd.Wait and
\* gone on to the marker; the window has no failure line
C18_KilledSilent ==
    /\ ~term
    /\ \E i \in ProcIdx : procs[i].st = "killed" /\ procs[i].pc = "marker"
    /\ \A k \in WinIdx : win[k].op # "fail"

\* C19: in both modes the supervisor loop tracks no command or the one it
\* started last; a command has been sent the kill once if the loop has gone
\* through its kill step since the command was started, and not at all as
\* long as it is the one tracked; no command is sent the kill twice
C19_TrackedKilledOnce ==
    /\ lastcmd \in {0, Len(procs)}
    /\ \A i \in ProcIdx : procs[i].kills = (IF lastcmd = i THEN 0 ELSE 1)

\* window mode: command 1 was killed by the second iteration, whose start
\* failed; the third iteration has passed its kill step
C19_NotKilledAgain ==
    /\ ~term /\ run.id = 3 /\ runnerPc \in {"pipe", "start"}
    /\ Len(procs) = 1 /\ procs[1].kills = 1

====
